---- MODULE Spec2Model ----
(***************************************************************************)
(* FRPC runner (ha_frpc/run.py): configuration rendering from templates    *)
(* and supervision of the frpc client and the log follower.                *)
(*                                                                         *)
(* Text is a sequence of lines, a line a sequence of tokens (strings): a   *)
(* token is a literal piece of template text, a placeholder, or a piece    *)
(* of a substituted value.  Python values carry their type in field k.     *)
(***************************************************************************)
EXTENDS Integers, Sequences, FiniteSets, TLC

VARIABLES
    options,       \* parsed /data/options.json, or NoFile
    bashioUp,      \* whether the wrapped bashio.config answers or raises
    caller,        \* "main" (run.py main) or "test" (generate_config called directly)
    pc,            \* position of the supervisor / of generate_config
    file,          \* content of CONFIG_DST
    proxy_index,   \* generate_config's loop counter
    appended,      \* history: proxy_index of every append_to_file call, in order
    exc,           \* the exception in flight, NoExc when none
    handlers,      \* signals with signal_handler installed
    FRPC_PID,      \* module global FRPC_PID
    TAIL_PID,      \* module global TAIL_PID
    frpc,          \* the frpc child: "none", "running", "exited", "reaped"
    frpcCode,      \* exit code of the frpc child, None until it has exited
    tail,          \* the tail child: "none", "running", "exited"
    termSent,      \* history: children that os.kill delivered SIGTERM to
    shutdownRan,   \* history: how signal_handler was entered, "no" when it was not
    exitCode       \* exit status of the supervisor, None while it runs

vars == <<options, bashioUp, caller, pc, file, proxy_index, appended, exc, handlers,
          FRPC_PID, TAIL_PID, frpc, frpcCode, tail, termSent, shutdownRan, exitCode>>

supervisorVars == <<handlers, FRPC_PID, TAIL_PID, frpc, frpcCode, tail, termSent,
                    shutdownRan, exitCode>>

renderVars == <<file, proxy_index, appended>>

inputVars == <<options, bashioUp, caller>>

-----------------------------------------------------------------------------
(* Bounds *)

\* longest proxies list of a settings document, when generate_config is called directly
MaxProxies == 2

\* longest proxies list of a settings document, when main() runs
MaxMainProxies == 1

-----------------------------------------------------------------------------
(* Python values *)

None == [k |-> "none"]

VStr(s) == [k |-> "str", s |-> s]

VInt(n) == [k |-> "int", n |-> n]

VBool(b) == [k |-> "bool", b |-> b]

VList(l) == [k |-> "list", l |-> l]

VDict(m) == [k |-> "dict", m |-> m]

NoFile == [k |-> "nofile"]

\* val is None or val == '' or val == []
IsEmpty(val) ==
    \/ val.k = "none"
    \/ (val.k = "str" /\ val.s = "")
    \/ (val.k = "list" /\ val.l = <<>>)

\* bool(val)
Truthy(val) ==
    CASE val.k = "none" -> FALSE
      [] val.k = "str"  -> val.s # ""
      [] val.k = "int"  -> val.n # 0
      [] val.k = "bool" -> val.b
      [] val.k = "list" -> val.l # <<>>
      [] OTHER          -> DOMAIN val.m # {}

\* str.lower() on the strings the settings use
Lower(s) ==
    CASE s = "Yes"   -> "yes"
      [] s = "TRUE"  -> "true"
      [] s = "HTTPS" -> "https"
      [] s = "HTTP"  -> "http"
      [] OTHER       -> s

\* str(val), as tokens
PyStr(val) ==
    CASE val.k = "none" -> <<"None">>
      [] val.k = "str"  -> IF val.s = "" THEN <<>> ELSE <<val.s>>
      [] val.k = "int"  -> <<ToString(val.n)>>
      [] val.k = "bool" -> IF val.b THEN <<"True">> ELSE <<"False">>
      [] val.k = "list" -> IF val.l = <<>> THEN <<"[]">> ELSE <<"[", "...", "]">>
      [] OTHER          -> <<"{", "...", "}">>

-----------------------------------------------------------------------------
(* Keys: 'proxies/0/name' is <<Fld("proxies"), Idx(0), Fld("name")>> *)

Fld(n) == [fld |-> n]

Idx(i) == [idx |-> i]

isdigit(part) == "idx" \in DOMAIN part

ProxyKey(i, name) == <<Fld("proxies"), Idx(i), Fld(name)>>

RECURSIVE Walk(_, _)
Walk(val, parts) ==
    IF parts = <<>> THEN val
    ELSE LET part == Head(parts)
             nxt  == IF isdigit(part)
                     THEN IF val.k = "list" /\ part.idx < Len(val.l)
                          THEN val.l[part.idx + 1]
                          ELSE None
                     ELSE IF val.k = "dict"
                          THEN IF part.fld \in DOMAIN val.m THEN val.m[part.fld] ELSE None
                          ELSE None
         IN  IF nxt.k = "none" THEN None ELSE Walk(nxt, Tail(parts))

read_from_options_json(opts, key) ==
    IF opts.k = "nofile" THEN None ELSE Walk(opts, key)

\* bashio.config(key) of the wrapped library: the value, or Raised when it raises
Raised == [k |-> "raised"]

original_config(opts, up, key) ==
    IF up THEN read_from_options_json(opts, key) ELSE Raised

config_with_fallback(opts, up, key, default) ==
    LET val == original_config(opts, up, key)
    IN  IF val.k # "raised" /\ ~IsEmpty(val) THEN val
        ELSE LET val2 == read_from_options_json(opts, key)
             IN  IF ~IsEmpty(val2) THEN val2 ELSE default

\* Exceptions
NoExc == [type |-> "none"]

ValueError(key) == [type |-> "ValueError", msg |-> "Required config key not found", key |-> key]

TypeError == [type |-> "TypeError", msg |-> "replace() argument 2 must be str"]

OSError(what) == [type |-> "OSError", msg |-> what]

KeyboardInterrupt == [type |-> "KeyboardInterrupt"]

\* What a call that may raise gives: the value returned or the exception raised
Ok(v) == [ok |-> TRUE, v |-> v]

Err(e) == [ok |-> FALSE, e |-> e]

\* require with "if not val" (as BashioMock.require tests it): every falsy
\* value counts as missing
require_wrapper_falsy(opts, up, key) ==
    LET val == config_with_fallback(opts, up, key, VStr(""))
    IN  IF ~Truthy(val) THEN Err(ValueError(key)) ELSE Ok(val)

require_wrapper(opts, up, key) ==
    LET val == config_with_fallback(opts, up, key, VStr(""))
    IN  IF IsEmpty(val)
        THEN LET val2 == read_from_options_json(opts, key)
             IN  IF IsEmpty(val2) THEN Err(ValueError(key)) ELSE Ok(val2)
        ELSE Ok(val)

true_method(opts, up, key) ==
    LET val == config_with_fallback(opts, up, key, VStr(""))
    IN  IF val.k = "bool" THEN val.b
        ELSE IF val.k = "str" THEN Lower(val.s) \in {"true", "1", "yes"}
        ELSE Truthy(val)

-----------------------------------------------------------------------------
(* Templates *)

\* /defaults/frpc_template.toml
BaseTemplate ==
    << <<"serverAddr = \"", "__SERVERADDR__", "\"">>,
       <<"serverPort = ", "__SERVERPORT__">>,
       <<"auth.method = \"", "__AUTHMETHOD__", "\"">>,
       <<"# ", "__AUTHTOKEN_LINE__">>,
       <<"transport.tls.enable = ", "__TLSENABLE__">>,
       <<"# ", "__TLSCERT_LINE__">>,
       <<"# ", "__TLSKEY_LINE__">>,
       <<"# ", "__TLSCA_LINE__">>,
       <<"log.to = \"/share/frpc.log\"">> >>

\* /defaults/proxy_template.toml
ProxyTemplate ==
    << <<"[[proxies]]">>,
       <<"name = \"", "__NAME__", "\"">>,
       <<"type = \"", "__TYPE__", "\"">>,
       <<"localIP = \"", "__LOCALIP__", "\"">>,
       <<"localPort = ", "__LOCALPORT__">>,
       <<"remotePort = ", "__REMOTEPORT__">>,
       <<"transport.useEncryption = ", "__USEENCRYPTION__">>,
       <<"transport.useCompression = ", "__USECOMPRESSION__">>,
       <<"customDomains = [", "__CUSTOMDOMAINS__", "]">>,
       <<"subdomain = \"", "__SUBDOMAIN__", "\"">> >>

BaseMarkers ==
    {"__SERVERADDR__", "__SERVERPORT__", "__AUTHMETHOD__", "__AUTHTOKEN_LINE__",
     "__TLSENABLE__", "__TLSCERT_LINE__", "__TLSKEY_LINE__", "__TLSCA_LINE__"}

TlsMarkers == {"__TLSCERT_LINE__", "__TLSKEY_LINE__", "__TLSCA_LINE__"}

-----------------------------------------------------------------------------
(* Text operations *)

\* pattern in line
Contains(line, pattern) == \E j \in 1..Len(line) : line[j] = pattern

\* pattern in content
Mentions(content, pattern) == \E j \in 1..Len(content) : Contains(content[j], pattern)

\* str.replace(old, new) on one line, new given as tokens
RECURSIVE ReplaceTokens(_, _, _)
ReplaceTokens(line, old, new) ==
    IF line = <<>> THEN <<>>
    ELSE (IF Head(line) = old THEN new ELSE <<Head(line)>>)
         \o ReplaceTokens(Tail(line), old, new)

\* str.replace(old, new) on a text
StrReplace(content, old, new) ==
    [j \in 1..Len(content) |-> ReplaceTokens(content[j], old, new)]

\* str.replace raises TypeError for a non-string
replace_in_file(content, old, new) ==
    IF new.k = "str" THEN Ok(StrReplace(content, old, PyStr(new))) ELSE Err(TypeError)

replace_line_in_file(content, pattern, replacement) ==
    [j \in 1..Len(content) |->
        IF Contains(content[j], pattern) THEN replacement ELSE content[j]]

delete_line_in_file(content, pattern) ==
    SelectSeq(content, LAMBDA line : ~Contains(line, pattern))

\* f.write('\n' + content)
append_to_file(content, text) == content \o << <<>> >> \o text

-----------------------------------------------------------------------------
(* generate_proxy_config *)

proxy_keys ==
    <<"name", "type", "localIP", "localPort", "remotePort", "useEncryption", "useCompression">>

\* f'__{key.upper()}__'
Placeholder(key) ==
    CASE key = "name"           -> "__NAME__"
      [] key = "type"           -> "__TYPE__"
      [] key = "localIP"        -> "__LOCALIP__"
      [] key = "localPort"      -> "__LOCALPORT__"
      [] key = "remotePort"     -> "__REMOTEPORT__"
      [] key = "useEncryption"  -> "__USEENCRYPTION__"
      [] key = "useCompression" -> "__USECOMPRESSION__"

\* the loop over proxy_keys, from the j-th key on
RECURSIVE ReplacePlaceholders(_, _, _, _, _)
ReplacePlaceholders(opts, up, i, j, content) ==
    IF j > Len(proxy_keys) THEN content
    ELSE LET key == proxy_keys[j]
             val == config_with_fallback(opts, up, ProxyKey(i, key), VStr(""))
         IN  ReplacePlaceholders(opts, up, i, j + 1,
                                 StrReplace(content, Placeholder(key), PyStr(val)))

generate_proxy_config(opts, up, i) ==
    LET name == require_wrapper(opts, up, ProxyKey(i, "name"))
    IN  IF ~name.ok THEN name
        ELSE LET filled == ReplacePlaceholders(opts, up, i, 1, ProxyTemplate)
                 domain == config_with_fallback(opts, up,
                               ProxyKey(i, "customDomains") \o <<Idx(0)>>, VStr(""))
             IN  IF Truthy(domain)
                 THEN Ok(StrReplace(filled, "__CUSTOMDOMAINS__",
                                    <<"\"">> \o PyStr(domain) \o <<"\"">>))
                 ELSE Ok(SelectSeq(filled,
                                   LAMBDA line : ~Contains(line, "__CUSTOMDOMAINS__")))

-----------------------------------------------------------------------------
(* Settings documents *)

Proxy(name, type, remotePort, enc, comp, domains, subdomain) ==
    VDict([name |-> name, type |-> type,
           localIP |-> VStr("192.168.2.50"), localPort |-> VInt(8123),
           remotePort |-> remotePort,
           useEncryption |-> enc, useCompression |-> comp,
           customDomains |-> domains, subdomain |-> subdomain])

ProxyEntries ==
    { Proxy(VStr("pi4.vlcam"), VStr("tcp"), VInt(54567), VBool(TRUE), VBool(FALSE),
            VList(<<>>), None),
      Proxy(VStr("web"), VStr("https"), None, VBool(FALSE), VBool(TRUE),
            VList(<<VStr("home.example.com")>>), None),
      Proxy(VStr("ha"), VStr("HTTP"), None, VBool(FALSE), VBool(FALSE),
            None, VStr("home")),
      Proxy(VStr("bare"), VStr("https"), None, VBool(TRUE), VBool(TRUE),
            None, None),
      Proxy(VStr("dns"), VStr("udp"), None, VStr("true"), VStr("false"),
            VList(<<>>), VStr("")),
      Proxy(VStr(""), VStr("tcp"), VInt(54567), VBool(TRUE), VBool(TRUE),
            None, None) }

RECURSIVE SeqsUpTo(_, _)
SeqsUpTo(S, n) ==
    IF n = 0 THEN {<<>>}
    ELSE LET shorter == SeqsUpTo(S, n - 1)
         IN  shorter \cup {Append(q, x) : q \in shorter, x \in S}

\* serverAddr, authMethod, authToken
RequiredSettings ==
    { <<VStr("example.com"), VStr("token"), VStr("test-token")>>,
      <<None, VStr("token"), VStr("test-token")>>,
      <<VStr("example.com"), VStr("token"), VStr("")>> }

ServerPorts == {VInt(7000), VStr("7000")}

\* tlsEnable, tlsCertFile, tlsKeyFile, tlsCaFile
TlsSettings ==
    { <<None, None, None, None>>,
      <<VBool(FALSE), None, None, None>>,
      <<VBool(FALSE), VStr("cert.pem"), VStr("key.pem"), VStr("ca.pem")>>,
      <<VBool(TRUE), VStr("cert.pem"), VStr("key.pem"), VStr("ca.pem")>>,
      <<VBool(TRUE), VStr("cert.pem"), VStr(""), None>>,
      <<VStr("Yes"), None, None, None>>,
      <<VInt(0), None, None, None>> }

Options(req, port, tls, proxies) ==
    VDict([serverAddr |-> req[1], serverPort |-> port, authMethod |-> req[2],
           authToken |-> req[3],
           tlsEnable |-> tls[1], tlsCertFile |-> tls[2], tlsKeyFile |-> tls[3],
           tlsCaFile |-> tls[4],
           proxies |-> VList(proxies)])

Documents(maxProxies) ==
    { Options(req, port, tls, proxies) :
        req \in RequiredSettings, port \in ServerPorts, tls \in TlsSettings,
        proxies \in SeqsUpTo(ProxyEntries, maxProxies) }
    \cup {NoFile}

-----------------------------------------------------------------------------
(* generate_config, one action per statement *)

key(name) == <<Fld(name)>>

\* an exception swallowed where it is raised (except Exception: pass), main()
\* going on to launch the client
Raise_swallowed(e) ==
    /\ exc' = e
    /\ pc' = IF caller = "main" THEN "m_popen_frpc" ELSE "raised"

Raise(e) ==
    /\ exc' = e
    /\ pc' = IF caller = "main" THEN "m_except" ELSE "raised"

Return ==
    /\ exc' = exc
    /\ pc' = IF caller = "main" THEN "m_popen_frpc" ELSE "returned"

\* shutil.copy2(config_src, config_dst)
CopyTemplate ==
    /\ pc = "gc_copy"
    /\ \/ /\ file' = BaseTemplate
          /\ pc' = "gc_addr"
          /\ exc' = exc
       \/ /\ Raise(OSError("template unreadable"))
          /\ file' = file
    /\ UNCHANGED <<proxy_index, appended, inputVars, supervisorVars>>

\* value = config.require(name); replace_in_file(config_dst, marker, value)
FillGlobal(here, next, name, marker) ==
    /\ pc = here
    /\ LET value == require_wrapper(options, bashioUp, key(name))
           new   == IF value.ok THEN replace_in_file(file, marker, value.v) ELSE value
       IN  IF new.ok
           THEN file' = new.v /\ pc' = next /\ exc' = exc
           ELSE Raise(new.e) /\ file' = file
    /\ UNCHANGED <<proxy_index, appended, inputVars, supervisorVars>>

FillServerAddr == FillGlobal("gc_addr", "gc_port", "serverAddr", "__SERVERADDR__")

FillServerPort == FillGlobal("gc_port", "gc_method", "serverPort", "__SERVERPORT__")

FillAuthMethod == FillGlobal("gc_method", "gc_token", "authMethod", "__AUTHMETHOD__")

FillAuthToken ==
    /\ pc = "gc_token"
    /\ LET auth_token == require_wrapper(options, bashioUp, key("authToken"))
       IN  IF ~auth_token.ok
           THEN Raise(auth_token.e) /\ file' = file
           ELSE /\ file' = replace_line_in_file(file, "__AUTHTOKEN_LINE__",
                               <<"auth.token = \"">> \o PyStr(auth_token.v) \o <<"\"">>)
                /\ pc' = "gc_tls"
                /\ exc' = exc
    /\ UNCHANGED <<proxy_index, appended, inputVars, supervisorVars>>

TlsLine(prefix, name) ==
    <<prefix>> \o PyStr(config_with_fallback(options, bashioUp, key(name), VStr(""))) \o <<"\"">>

\* the TLS block of generate_config, applied to content
tls_settings(content) ==
    IF true_method(options, bashioUp, key("tlsEnable"))
    THEN LET c1 == replace_in_file(content, "__TLSENABLE__", VStr("true")).v
             c2 == replace_line_in_file(c1, "__TLSCERT_LINE__",
                                        TlsLine("\ttls.certFile = \"", "tlsCertFile"))
             c3 == replace_line_in_file(c2, "__TLSKEY_LINE__",
                                        TlsLine("\ttls.keyFile = \"", "tlsKeyFile"))
         IN  replace_line_in_file(c3, "__TLSCA_LINE__",
                                  TlsLine("\ttls.trustedCaFile = \"", "tlsCaFile"))
    ELSE LET c1 == replace_in_file(content, "__TLSENABLE__", VStr("false")).v
             c2 == delete_line_in_file(c1, "__TLSCERT_LINE__")
             c3 == delete_line_in_file(c2, "__TLSKEY_LINE__")
         IN  delete_line_in_file(c3, "__TLSCA_LINE__")

TlsBlock ==
    /\ pc = "gc_tls"
    /\ file' = tls_settings(file)
    /\ pc' = "gc_proxies"
    /\ proxy_index' = 0
    /\ UNCHANGED <<appended, exc, inputVars, supervisorVars>>

\* one pass of the while True loop, with its except ValueError
ProxyLoop ==
    /\ pc = "gc_proxies"
    /\ LET probe == require_wrapper(options, bashioUp, ProxyKey(proxy_index, "name"))
           proxy_config == generate_proxy_config(options, bashioUp, proxy_index)
       IN  IF ~probe.ok
           THEN Return /\ UNCHANGED renderVars
           ELSE IF ~proxy_config.ok
           THEN /\ IF proxy_config.e.type = "ValueError"
                   THEN Return
                   ELSE Raise(proxy_config.e)
                /\ UNCHANGED renderVars
           ELSE /\ file' = append_to_file(file, proxy_config.v)
                /\ appended' = Append(appended, proxy_index)
                /\ proxy_index' = proxy_index + 1
                /\ UNCHANGED <<pc, exc>>
    /\ UNCHANGED <<inputVars, supervisorVars>>

GenerateConfig ==
    \/ CopyTemplate
    \/ FillServerAddr
    \/ FillServerPort
    \/ FillAuthMethod
    \/ FillAuthToken
    \/ TlsBlock
    \/ ProxyLoop

InitSupervisor ==
    /\ handlers = {}
    /\ FRPC_PID = None
    /\ TAIL_PID = None
    /\ frpc = "none"
    /\ frpcCode = None
    /\ tail = "none"
    /\ termSent = {}
    /\ shutdownRan = "no"
    /\ exitCode = None

InitRender ==
    /\ options \in Documents(MaxProxies)
    /\ bashioUp \in BOOLEAN
    /\ caller = "test"
    /\ pc = "gc_copy"
    /\ file = <<>>
    /\ proxy_index = 0
    /\ appended = <<>>
    /\ exc = NoExc
    /\ InitSupervisor

\* generate_config(template, output, bashio) called on its own, as the tests do
SpecRender == InitRender /\ [][GenerateConfig]_vars

-----------------------------------------------------------------------------
(* signal_handler *)

\* os.kill(pid, SIGTERM) on a child in state proc: delivered, or ProcessLookupError
os_kill(proc) == IF proc \in {"running", "exited"} THEN "sent" ELSE "ProcessLookupError"

\* signal_handler without its except ProcessLookupError clauses: the first kill
\* of a child that is gone ends the handler with a traceback
signal_handler_uncaught(frpc_pid, tail_pid, frpc_proc, tail_proc) ==
    IF Truthy(frpc_pid) /\ os_kill(frpc_proc) # "sent"
    THEN [sent |-> {}, status |-> 1]
    ELSE IF Truthy(tail_pid) /\ os_kill(tail_proc) # "sent"
    THEN [sent |-> IF Truthy(frpc_pid) THEN {"frpc"} ELSE {}, status |-> 1]
    ELSE [sent |-> (IF Truthy(frpc_pid) THEN {"frpc"} ELSE {})
                   \cup (IF Truthy(tail_pid) THEN {"tail"} ELSE {}),
          status |-> 0]

\* the children signalled and the status the process exits with
signal_handler(frpc_pid, tail_pid, frpc_proc, tail_proc) ==
    [sent   |-> (IF Truthy(frpc_pid) /\ os_kill(frpc_proc) = "sent" THEN {"frpc"} ELSE {})
                \cup
                (IF Truthy(tail_pid) /\ os_kill(tail_proc) = "sent" THEN {"tail"} ELSE {}),
     status |-> 0]

\* signal_handler runs to its sys.exit: SystemExit is no Exception, nothing catches it
Shutdown(how) ==
    LET h == signal_handler(FRPC_PID, TAIL_PID, frpc, tail)
    IN  /\ termSent' = termSent \cup h.sent
        /\ shutdownRan' = how
        /\ exitCode' = VInt(h.status)
        /\ pc' = "exited"

-----------------------------------------------------------------------------
(* main *)

Signals == {"SIGTERM", "SIGHUP"}

ChildExitCodes == {0, 1, 3}

TryBlock ==
    {"m_sigterm", "m_sighup", "gc_copy", "gc_addr", "gc_port", "gc_method", "gc_token",
     "gc_tls", "gc_proxies", "m_popen_frpc", "m_set_frpc_pid", "m_popen_tail",
     "m_set_tail_pid", "m_wait"}

InstallHandler(here, next, sig) ==
    /\ pc = here
    /\ handlers' = handlers \cup {sig}
    /\ pc' = next
    /\ UNCHANGED <<inputVars, renderVars, exc, FRPC_PID, TAIL_PID, frpc, frpcCode, tail,
                   termSent, shutdownRan, exitCode>>

InstallSigterm == InstallHandler("m_sigterm", "m_sighup", "SIGTERM")

InstallSighup == InstallHandler("m_sighup", "gc_copy", "SIGHUP")

\* frpc_process = subprocess.Popen(['/usr/bin/frpc', '-c', CONFIG_DST])
PopenFrpc ==
    /\ pc = "m_popen_frpc"
    /\ \/ /\ frpc' = "running"
          /\ pc' = "m_set_frpc_pid"
          /\ exc' = exc
       \/ /\ Raise(OSError("frpc not launched"))
          /\ frpc' = frpc
    /\ UNCHANGED <<inputVars, renderVars, handlers, FRPC_PID, TAIL_PID, frpcCode, tail,
                   termSent, shutdownRan, exitCode>>

\* FRPC_PID = frpc_process.pid
SetFrpcPid ==
    /\ pc = "m_set_frpc_pid"
    /\ FRPC_PID' = VInt(4001)
    /\ pc' = "m_popen_tail"
    /\ UNCHANGED <<inputVars, renderVars, exc, handlers, TAIL_PID, frpc, frpcCode, tail,
                   termSent, shutdownRan, exitCode>>

\* tail_process = subprocess.Popen(['tail', '-F', '/share/frpc.log'])
PopenTail ==
    /\ pc = "m_popen_tail"
    /\ \/ /\ tail' = "running"
          /\ pc' = "m_set_tail_pid"
          /\ exc' = exc
       \/ /\ Raise(OSError("tail not launched"))
          /\ tail' = tail
    /\ UNCHANGED <<inputVars, renderVars, handlers, FRPC_PID, TAIL_PID, frpc, frpcCode,
                   termSent, shutdownRan, exitCode>>

\* TAIL_PID = tail_process.pid
SetTailPid ==
    /\ pc = "m_set_tail_pid"
    /\ TAIL_PID' = VInt(4002)
    /\ pc' = "m_wait"
    /\ UNCHANGED <<inputVars, renderVars, exc, handlers, FRPC_PID, frpc, frpcCode, tail,
                   termSent, shutdownRan, exitCode>>

\* frpc_process.wait() returns once the child has exited, and reaps it
Wait ==
    /\ pc = "m_wait"
    /\ frpc = "exited"
    /\ frpc' = "reaped"
    /\ pc' = "m_return"
    /\ UNCHANGED <<inputVars, renderVars, exc, handlers, FRPC_PID, TAIL_PID, frpcCode, tail,
                   termSent, shutdownRan, exitCode>>

\* main() returns and the interpreter exits
MainReturn ==
    /\ pc = "m_return"
    /\ exitCode' = VInt(0)
    /\ pc' = "exited"
    /\ UNCHANGED <<inputVars, renderVars, exc, handlers, FRPC_PID, TAIL_PID, frpc, frpcCode,
                   tail, termSent, shutdownRan>>

\* except KeyboardInterrupt / except Exception as e
ExceptHandler ==
    /\ pc = "m_except"
    /\ Shutdown(IF exc.type = "KeyboardInterrupt" THEN "interrupt" ELSE "error")
    /\ UNCHANGED <<inputVars, renderVars, exc, handlers, FRPC_PID, TAIL_PID, frpc, frpcCode,
                   tail>>

\* SIGINT inside the try block raises KeyboardInterrupt there
Interrupt ==
    /\ pc \in TryBlock
    /\ exc' = KeyboardInterrupt
    /\ pc' = "m_except"
    /\ UNCHANGED <<inputVars, renderVars, supervisorVars>>

\* SIGINT after the try block: nothing catches the KeyboardInterrupt
InterruptUncaught ==
    /\ pc = "m_return"
    /\ exc' = KeyboardInterrupt
    /\ exitCode' = VInt(130)
    /\ pc' = "exited"
    /\ UNCHANGED <<inputVars, renderVars, handlers, FRPC_PID, TAIL_PID, frpc, frpcCode, tail,
                   termSent, shutdownRan>>

\* SIGTERM or SIGHUP with signal_handler installed
SignalHandled ==
    /\ pc # "exited"
    /\ \E sig \in handlers : Shutdown(sig)
    /\ UNCHANGED <<inputVars, renderVars, exc, handlers, FRPC_PID, TAIL_PID, frpc, frpcCode,
                   tail>>

\* SIGTERM or SIGHUP before signal.signal: the default disposition ends the process
SignalDefault ==
    /\ pc # "exited"
    /\ \E sig \in Signals \ handlers :
          exitCode' = VInt(IF sig = "SIGTERM" THEN 143 ELSE 129)
    /\ pc' = "exited"
    /\ UNCHANGED <<inputVars, renderVars, exc, handlers, FRPC_PID, TAIL_PID, frpc, frpcCode,
                   tail, termSent, shutdownRan>>

\* the frpc client exits on its own
FrpcExits ==
    /\ pc # "exited"
    /\ frpc = "running"
    /\ frpc' = "exited"
    /\ \E code \in ChildExitCodes : frpcCode' = VInt(code)
    /\ UNCHANGED <<inputVars, renderVars, pc, exc, handlers, FRPC_PID, TAIL_PID, tail,
                   termSent, shutdownRan, exitCode>>

\* the log follower exits on its own
TailExits ==
    /\ pc # "exited"
    /\ tail = "running"
    /\ tail' = "exited"
    /\ UNCHANGED <<inputVars, renderVars, pc, exc, handlers, FRPC_PID, TAIL_PID, frpc,
                   frpcCode, termSent, shutdownRan, exitCode>>

Init ==
    /\ options \in Documents(MaxMainProxies)
    /\ bashioUp \in BOOLEAN
    /\ caller = "main"
    /\ pc = "m_sigterm"
    /\ file = <<>>
    /\ proxy_index = 0
    /\ appended = <<>>
    /\ exc = NoExc
    /\ InitSupervisor

Next ==
    \/ InstallSigterm
    \/ InstallSighup
    \/ GenerateConfig
    \/ PopenFrpc
    \/ SetFrpcPid
    \/ PopenTail
    \/ SetTailPid
    \/ Wait
    \/ MainReturn
    \/ ExceptHandler
    \/ Interrupt
    \/ InterruptUncaught
    \/ SignalHandled
    \/ SignalDefault
    \/ FrpcExits
    \/ TailExits

\* python3 run.py
Spec == Init /\ [][Next]_vars

-----------------------------------------------------------------------------
(* What the properties below speak of *)

\* present and non-empty
Present(val) == ~(val.k = "none" \/ (val.k = "str" /\ val.s = ""))

Setting(name) == IF options.k = "dict" THEN options.m[name] ELSE None

\* the proxies list of the settings document
Entries == IF options.k = "dict" THEN options.m.proxies.l ELSE <<>>

Entry(i) == Entries[i + 1].m

\* serverAddr, serverPort, authMethod and authToken are present and non-empty
ValidGlobals == \A name \in {"serverAddr", "serverPort", "authMethod", "authToken"} :
                    Present(Setting(name))

\* the global settings that are substituted as text are strings
TextGlobals == \A name \in {"serverAddr", "serverPort", "authMethod"} :
                   Setting(name).k = "str"

\* the k of "proxies/0/name .. proxies/(k-1)/name are present, proxies/k/name is not"
NamedPrefix ==
    CHOOSE k \in 0..Len(Entries) :
        /\ \A i \in 0..(k - 1) : Present(Entry(i).name)
        /\ k = Len(Entries) \/ ~Present(Entry(k).name)

\* generate_config has returned or raised, the template files being readable
Finished == pc \in {"returned", "raised"} /\ exc.type # "OSError"

\* the lines of the n-th proxy section of the file (n from 1)
SectionStarts == {j \in 1..Len(file) : file[j] = <<"[[proxies]]">>}

Section(n) ==
    LET start == CHOOSE j \in SectionStarts :
                     Cardinality({x \in SectionStarts : x < j}) = n - 1
        later == {x \in SectionStarts : x > start}
        stop  == IF later = {} THEN Len(file)
                 ELSE (CHOOSE x \in later : \A y \in later : x <= y) - 1
    IN  SubSeq(file, start, stop)

HasLine(text, line) == \E j \in 1..Len(text) : text[j] = line

HttpType(entry) == entry.type.k = "str" /\ Lower(entry.type.s) \in {"http", "https"}

NoDomain(entry) ==
    /\ ~(entry.customDomains.k = "list" /\ entry.customDomains.l # <<>>
         /\ Present(entry.customDomains.l[1]))
    /\ ~Present(entry.subdomain)

-----------------------------------------------------------------------------
(* Properties of generate_config, under SpecRender *)

\* C1: when an enumerated proxy has type http or https (in any letter case) and
\* neither a non-empty customDomains/0 nor a non-empty subdomain, generate_config
\* ends by raising an error that says the proxy requires either "subdomain" or
\* "customDomains"; it does not return as if the proxy list had ended.
\* (Stated for documents whose global settings are strings, so that the render
\* reaches the proxy.)
C1_DomainRequirementRaised ==
    (/\ Finished /\ ValidGlobals /\ TextGlobals
     /\ \E i \in 0..(NamedPrefix - 1) : HttpType(Entry(i)) /\ NoDomain(Entry(i)))
    => (/\ pc = "raised"
        /\ exc.type = "ValueError"
        /\ exc.msg = "requires either \"subdomain\" or \"customDomains\"")

\* C2: every rendered section of a tcp or udp proxy with a configured remotePort
\* has the line remotePort = <value>, and no rendered section of an http or https
\* proxy has a line that mentions remotePort.
C2_RemotePortLine ==
    \A n \in 1..Len(appended) :
        LET entry == Entry(appended[n])
            sec   == Section(n)
        IN  /\ (/\ entry.type.k = "str" /\ entry.type.s \in {"tcp", "udp"}
                /\ entry.remotePort.k = "int")
               => HasLine(sec, <<"remotePort = ", ToString(entry.remotePort.n)>>)
            /\ HttpType(entry)
               => ~(Mentions(sec, "remotePort = ") \/ Mentions(sec, "__REMOTEPORT__"))

\* C3: for a document with valid global settings whose first k proxy names are
\* present and whose k-th is not, generate_config returns having appended exactly
\* the sections of proxies 0..k-1, in that order, each once.
C3_EnumeratesNamedPrefix ==
    (Finished /\ ValidGlobals)
    => (/\ pc = "returned"
        /\ appended = [n \in 1..NamedPrefix |-> n - 1]
        /\ Cardinality(SectionStarts) = NamedPrefix
        /\ \A n \in 1..NamedPrefix :
              HasLine(Section(n), <<"name = \"", Entry(n - 1).name.s, "\"">>))

\* C7: a boolean useEncryption / useCompression is rendered as the lowercase
\* literal true or false, never as True or False, and so is the tls.enable line.
C7_LowercaseBooleans ==
    /\ \A n \in 1..Len(appended) :
          LET entry == Entry(appended[n])
              sec   == Section(n)
              lit(b) == IF b THEN "true" ELSE "false"
          IN  /\ entry.useEncryption.k = "bool"
                 => HasLine(sec, <<"transport.useEncryption = ", lit(entry.useEncryption.b)>>)
              /\ entry.useCompression.k = "bool"
                 => HasLine(sec, <<"transport.useCompression = ", lit(entry.useCompression.b)>>)
              /\ ~Mentions(sec, "True") /\ ~Mentions(sec, "False")
    /\ pc \in {"gc_proxies", "returned"}
       => \/ HasLine(file, <<"transport.tls.enable = ", "true">>)
          \/ HasLine(file, <<"transport.tls.enable = ", "false">>)

\* C8: with an integer serverPort (the other required settings being valid),
\* generate_config returns and the file has the line serverPort = <digits>.
C8_IntegerServerPort ==
    (Finished /\ ValidGlobals /\ Setting("serverPort").k = "int")
    => (/\ pc = "returned"
        /\ HasLine(file, <<"serverPort = ", ToString(Setting("serverPort").n)>>))

\* C9: for a document with valid global settings in which tlsEnable is false or
\* absent, the output has no tls cert / key / CA line and none of the TLS markers.
C9_NoTlsWhenDisabled ==
    (/\ Finished /\ ValidGlobals
     /\ Setting("tlsEnable") \in {None, VBool(FALSE)})
    => (/\ \A marker \in TlsMarkers : ~Mentions(file, marker)
        /\ \A prefix \in {"\ttls.certFile = \"", "\ttls.keyFile = \"",
                          "\ttls.trustedCaFile = \""} : ~Mentions(file, prefix))

\* C10: for a document whose serverAddr, serverPort, authMethod and authToken are
\* present and non-empty and that has no proxies, generate_config returns, the
\* output has no placeholder of the base template left and no proxy section.
C10_GlobalsOnly ==
    (Finished /\ ValidGlobals /\ Entries = <<>>)
    => (/\ pc = "returned"
        /\ \A marker \in BaseMarkers : ~Mentions(file, marker)
        /\ appended = <<>>
        /\ SectionStarts = {})

\* What C3, C9 and C10 say does hold of every document whose serverAddr,
\* serverPort and authMethod are strings: only str.replace's TypeError breaks them.
TextGlobalsEnumerate == TextGlobals => C3_EnumeratesNamedPrefix

TextGlobalsNoTls == TextGlobals => C9_NoTlsWhenDisabled

TextGlobalsOnly == TextGlobals => C10_GlobalsOnly

\* C12: when tlsEnable is true, each of tlsCertFile, tlsKeyFile and tlsCaFile that
\* is non-empty has its placeholder line replaced by the tls line with that value,
\* and each that is empty or absent has its placeholder line deleted: the output
\* has neither the marker nor a tls line for that field.
\* (Stated for documents whose global settings are strings, so that the render
\* reaches the TLS block.)
C12_TlsLinesOnlyForValues ==
    (/\ pc \in {"gc_proxies", "returned"} /\ TextGlobals
     /\ true_method(options, bashioUp, key("tlsEnable")))
    => \A field \in { <<"tlsCertFile", "__TLSCERT_LINE__", "\ttls.certFile = \"">>,
                       <<"tlsKeyFile", "__TLSKEY_LINE__", "\ttls.keyFile = \"">>,
                       <<"tlsCaFile", "__TLSCA_LINE__", "\ttls.trustedCaFile = \"">> } :
          /\ ~Mentions(file, field[2])
          /\ IF Present(Setting(field[1]))
             THEN HasLine(file, <<field[3], Setting(field[1]).s, "\"">>)
             ELSE ~Mentions(file, field[3])

\* C13: when an enumerated proxy whose type is not http or https has no remotePort
\* (absent or the empty string), generate_config ends by raising the missing-key
\* error that names proxies/<i>/remotePort, and no section of such a proxy with an
\* empty remotePort line is ever in the file.
\* (Stated for documents whose global settings are strings, so that the render
\* reaches the proxy.)
C13_RemotePortRequired ==
    /\ (/\ Finished /\ ValidGlobals /\ TextGlobals
        /\ \E i \in 0..(NamedPrefix - 1) :
               ~HttpType(Entry(i)) /\ ~Present(Entry(i).remotePort))
       => (/\ pc = "raised"
           /\ exc.type = "ValueError"
           /\ \E i \in 0..(NamedPrefix - 1) : exc.key = ProxyKey(i, "remotePort"))
    /\ \A n \in 1..Len(appended) :
          ~HttpType(Entry(appended[n])) => ~HasLine(Section(n), <<"remotePort = ">>)

-----------------------------------------------------------------------------
(* Properties of the lookups, under SpecRender *)

\* a default that no settings document holds
Sentinel == [k |-> "sentinel"]

ProxyFields ==
    {"name", "type", "localIP", "localPort", "remotePort", "useEncryption",
     "useCompression", "customDomains", "subdomain"}

\* the paths looked up: settings, proxy fields within and past the list, an index
\* into a list, and paths that index a string or take a field of a list
LookupKeys ==
    {key(name) : name \in {"serverAddr", "serverPort", "authMethod", "authToken",
                           "tlsEnable", "tlsCertFile", "tlsKeyFile", "tlsCaFile",
                           "proxies", "logLevel"}}
    \cup {ProxyKey(i, f) : i \in 0..MaxProxies, f \in ProxyFields}
    \cup {ProxyKey(i, "customDomains") \o <<Idx(0)>> : i \in 0..MaxProxies}
    \cup {<<Fld("serverAddr"), Idx(0)>>, <<Fld("proxies"), Fld("name")>>}

\* C11: for every path, the required lookup raises, naming the key, exactly when
\* the optional lookup with a sentinel default gives the sentinel, which is exactly
\* when the resolved value is absent, the empty string or the empty list; any
\* other value (false and 0 among them) is returned by both lookups.
C11_RequiredFailsWhenOptionalDefaults ==
    \A path \in LookupKeys :
        LET required == require_wrapper(options, bashioUp, path)
            optional == config_with_fallback(options, bashioUp, path, Sentinel)
            resolved == read_from_options_json(options, path)
            missing  == \/ resolved.k = "none"
                        \/ (resolved.k = "str" /\ resolved.s = "")
                        \/ (resolved.k = "list" /\ resolved.l = <<>>)
        IN  /\ ~required.ok <=> optional.k = "sentinel"
            /\ ~required.ok <=> missing
            /\ ~required.ok => (required.e.type = "ValueError" /\ required.e.key = path)
            /\ required.ok => (required.v = resolved /\ optional = resolved)

\* C11 witness: generate_config's required lookup of an empty authToken raised,
\* naming the key, in a document whose tlsEnable is false (or 0) and is returned
\* as such by the required lookup.
C11_Witness ==
    /\ pc = "raised" /\ exc.type = "ValueError" /\ exc.key = key("authToken")
    /\ Setting("authToken") = VStr("")
    /\ Setting("tlsEnable") \in {VBool(FALSE), VInt(0)}
    /\ require_wrapper(options, bashioUp, key("tlsEnable")) = Ok(Setting("tlsEnable"))
    /\ config_with_fallback(options, bashioUp, key("authToken"), Sentinel) = Sentinel

-----------------------------------------------------------------------------
(* Properties of main, under Spec *)

\* C4: when main() catches an internal error (a failed render, an unreadable
\* template, a child that could not be launched), the process exits with status 1.
C4_ErrorExitsNonZero ==
    (pc = "exited" /\ shutdownRan = "error") => exitCode = VInt(1)

\* C5: when the frpc child exits on its own and main() returns from its wait,
\* the process exits with the child's exit code.
C5_ChildCodePropagates ==
    (pc = "exited" /\ shutdownRan = "no" /\ frpc = "reaped" /\ exc.type = "none")
    => exitCode = frpcCode

\* C6: the step that runs the shutdown sequence, from any position of main(),
\* delivers SIGTERM to exactly the children whose pid is recorded and that still
\* exist, a recorded child that is gone stopping neither the other kill nor the
\* exit, and ends the process with status 0 without waiting for any child.
C6_ShutdownSequence ==
    [][(shutdownRan = "no" /\ shutdownRan' # "no")
       => (/\ pc' = "exited"
           /\ exitCode' = VInt(0)
           /\ frpc' = frpc /\ tail' = tail
           /\ termSent' =
                 {c \in {"frpc"} : FRPC_PID.k = "int" /\ frpc \in {"running", "exited"}}
                 \cup
                 {c \in {"tail"} : TAIL_PID.k = "int" /\ tail \in {"running", "exited"}})]_vars

\* C6 witness: the shutdown sequence ran after wait() had reaped frpc: the kill of
\* the recorded frpc pid found no process, the running log follower was still
\* signalled, and the process exited with status 0.
C6_Witness ==
    /\ shutdownRan # "no"
    /\ FRPC_PID.k = "int" /\ frpc = "reaped"
    /\ tail = "running" /\ termSent = {"tail"}
    /\ exitCode = VInt(0)

\* the render has completed: no placeholder of the base template is left, every
\* named proxy has its section, and nothing was raised
RenderCompleted ==
    /\ exc.type = "none"
    /\ file # <<>>
    /\ \A marker \in BaseMarkers : ~Mentions(file, marker)
    /\ appended = [n \in 1..NamedPrefix |-> n - 1]

RenderPositions ==
    {"gc_copy", "gc_addr", "gc_port", "gc_method", "gc_token", "gc_tls", "gc_proxies"}

\* C14: the frpc client is launched at most once and only from main()'s launch
\* statement after generate_config has completed; the log follower is launched
\* only after the client; generate_config is entered once and never again; and
\* when it raises no child has been launched and the only step main() takes
\* from its except clause is the exit.
C14_LaunchOnceAfterRender ==
    [][/\ frpc' = "running" /\ frpc # "running"
          => (frpc = "none" /\ pc = "m_popen_frpc" /\ RenderCompleted)
       /\ tail' = "running" /\ tail # "running"
          => (tail = "none" /\ pc = "m_popen_tail" /\ frpc # "none")
       /\ pc' = "gc_copy" => pc = "m_sighup"
       /\ (pc \in RenderPositions /\ pc' = "m_except")
          => (frpc' = "none" /\ tail' = "none")
       /\ (pc = "m_except" /\ pc' # pc) => pc' = "exited"]_vars

\* C14 witness: after a completed render with a proxy section, the client and then
\* the log follower have been launched and main() waits.
C14_Witness ==
    /\ pc = "m_wait"
    /\ frpc = "running" /\ tail = "running"
    /\ RenderCompleted /\ appended # <<>>

\* C15: when the process has exited through signal_handler on SIGTERM or SIGHUP,
\* every child launched before (and not yet reaped) has been sent SIGTERM.
C15_LaunchedChildrenSignalled ==
    (pc = "exited" /\ shutdownRan \in Signals)
    => (/\ frpc \in {"running", "exited"} => "frpc" \in termSent
        /\ tail \in {"running", "exited"} => "tail" \in termSent)

====
